---------------------------- MODULE Spec2Model ----------------------------
(***************************************************************************)
(* Model of eduhub_mongodb_project.py: a flat script that creates six      *)
(* MongoDB collections with schema validators and unique indexes, seeds    *)
(* them with fixed data sets and then runs CRUD calls and aggregations     *)
(* through a handful of helper functions.                                  *)
(*                                                                         *)
(* Documents are records keyed by field name; a collection is the sequence *)
(* of its documents in insertion (natural) order.  Fields that no          *)
(* operation of the script reads or writes (names, descriptions,           *)
(* createdAt, attendance, ...) are left out of the documents.              *)
(*                                                                         *)
(* Two specifications are given:                                           *)
(*   Spec     the script, statement by statement, possibly run again on    *)
(*            the database left by an earlier run;                         *)
(*   OpsSpec  the helper functions called in any order with arguments      *)
(*            from small sets, on the database the set-up part leaves.     *)
(***************************************************************************)
EXTENDS Integers, Sequences, FiniteSets, TLC

\* ------------------------------------------------------------------ bounds
\* Database calls that may raise (connection loss, server error) per behaviour.
MaxFailures == 1
\* Number of times the script is run on the same database.
MaxRuns == 2
\* Longest prefix of a batch that is stored before insert_many raises.
MaxPartial == 1
\* OpsSpec: number of documents inserted, and number of datetime.now() calls.
MaxOpsDocs == 2
MaxOpsClock == 2

\* ------------------------------------------------------------------- values
\* Python's None; as an id value it sorts below every integer, as BSON null does.
None == -1

\* Time is counted in ticks; TicksPerDay ticks make a day, so that two
\* datetime.now() calls of one run differ but fall on the same day.
TicksPerDay == 1000
\* datetime(y, m, d, ...) as the number of days since 2022-01-01, in ticks.
Day(n) == n * TicksPerDay
\* timedelta(days=n)
timedelta(n) == n * TicksPerDay
\* The day on which the first run starts: after every date literal of the
\* data sets (the latest is day 628) by more than six months.
RunDay == 1400

user_collection == "user"
course_collection == "course"
lesson_collection == "lesson"
assignment_collection == "assignment"
submission_collection == "submission"
enrollment_collection == "enrollment"

Collections ==
  {user_collection, course_collection, enrollment_collection,
   lesson_collection, assignment_collection, submission_collection}

\* The id_field argument that goes with each collection (lines 1113-1118).
IdField(c) ==
  CASE c = user_collection -> "userId"
    [] c = course_collection -> "courseId"
    [] c = enrollment_collection -> "enrollmentId"
    [] c = lesson_collection -> "lessonId"
    [] c = assignment_collection -> "assignmentId"
    [] c = submission_collection -> "submissionId"

\* users_data (lines 351-448): 32 users.
users_data ==
  << [userId |-> 1, email |-> "alice.student@example.com", role |-> "student", joinedAt |-> Day(379),
      profile |-> [bio |-> "Loves learning Python", avatar |-> "", skills |-> {"Python", "Data Analysis"}],
      isActive |-> TRUE, updatedAt |-> Day(627)],
     [userId |-> 2, email |-> "bob.student@example.com", role |-> "student", joinedAt |-> Day(405),
      profile |-> [bio |-> "Front-end enthusiast", avatar |-> "", skills |-> {"HTML", "CSS", "JavaScript"}],
      isActive |-> TRUE, updatedAt |-> Day(625)],
     [userId |-> 3, email |-> "carol.student@example.com", role |-> "student", joinedAt |-> Day(424),
      profile |-> [bio |-> "Data Science beginner", avatar |-> "", skills |-> {"Python", "Statistics"}],
      isActive |-> TRUE, updatedAt |-> Day(622)],
     [userId |-> 4, email |-> "david.student@example.com", role |-> "student", joinedAt |-> Day(384),
      profile |-> [bio |-> "AI hobbyist", avatar |-> "", skills |-> {"Python", "Machine Learning"}],
      isActive |-> TRUE, updatedAt |-> Day(626)],
     [userId |-> 5, email |-> "emma.student@example.com", role |-> "student", joinedAt |-> Day(420),
      profile |-> [bio |-> "Web developer in training", avatar |-> "", skills |-> {"HTML", "CSS"}],
      isActive |-> TRUE, updatedAt |-> Day(628)],
     [userId |-> 6, email |-> "frank.student@example.com", role |-> "student", joinedAt |-> Day(433),
      profile |-> [bio |-> "Interested in DevOps", avatar |-> "", skills |-> {"Docker", "Kubernetes"}],
      isActive |-> TRUE, updatedAt |-> Day(627)],
     [userId |-> 7, email |-> "grace.student@example.com", role |-> "student", joinedAt |-> Day(392),
      profile |-> [bio |-> "Learning backend development", avatar |-> "", skills |-> {"Node.js", "Express"}],
      isActive |-> TRUE, updatedAt |-> Day(626)],
     [userId |-> 8, email |-> "henry.student@example.com", role |-> "student", joinedAt |-> Day(400),
      profile |-> [bio |-> "Database enthusiast", avatar |-> "", skills |-> {"SQL", "PostgreSQL"}],
      isActive |-> TRUE, updatedAt |-> Day(625)],
     [userId |-> 9, email |-> "isabel.student@example.com", role |-> "student", joinedAt |-> Day(435),
      profile |-> [bio |-> "Learning AI", avatar |-> "", skills |-> {"Python", "TensorFlow"}],
      isActive |-> TRUE, updatedAt |-> Day(628)],
     [userId |-> 10, email |-> "jack.student@example.com", role |-> "student", joinedAt |-> Day(382),
      profile |-> [bio |-> "Cloud computing beginner", avatar |-> "", skills |-> {"AWS", "Azure"}],
      isActive |-> TRUE, updatedAt |-> Day(627)],
     [userId |-> 11, email |-> "kate.student@example.com", role |-> "student", joinedAt |-> Day(417),
      profile |-> [bio |-> "Cybersecurity enthusiast", avatar |-> "", skills |-> {"Network Security", "Linux"}],
      isActive |-> TRUE, updatedAt |-> Day(626)],
     [userId |-> 12, email |-> "leo.student@example.com", role |-> "student", joinedAt |-> Day(428),
      profile |-> [bio |-> "Loves Python scripting", avatar |-> "", skills |-> {"Python", "Automation"}],
      isActive |-> TRUE, updatedAt |-> Day(625)],
     [userId |-> 13, email |-> "mia.student@example.com", role |-> "student", joinedAt |-> Day(394),
      profile |-> [bio |-> "Full-stack web developer", avatar |-> "", skills |-> {"React", "Node.js"}],
      isActive |-> TRUE, updatedAt |-> Day(628)],
     [userId |-> 14, email |-> "nick.student@example.com", role |-> "student", joinedAt |-> Day(407),
      profile |-> [bio |-> "Interested in DevOps", avatar |-> "", skills |-> {"Docker", "CI/CD"}],
      isActive |-> TRUE, updatedAt |-> Day(627)],
     [userId |-> 15, email |-> "olivia.student@example.com", role |-> "student", joinedAt |-> Day(430),
      profile |-> [bio |-> "Learning Data Science", avatar |-> "", skills |-> {"Python", "Pandas"}],
      isActive |-> TRUE, updatedAt |-> Day(626)],
     [userId |-> 16, email |-> "paul.student@example.com", role |-> "student", joinedAt |-> Day(389),
      profile |-> [bio |-> "Interested in AI", avatar |-> "", skills |-> {"Python", "Keras"}],
      isActive |-> TRUE, updatedAt |-> Day(628)],
     [userId |-> 17, email |-> "queen.instructor@example.com", role |-> "instructor", joinedAt |-> Day(343),
      profile |-> [bio |-> "Expert in Python", avatar |-> "", skills |-> {"Python", "Data Science"}],
      isActive |-> TRUE, updatedAt |-> Day(622)],
     [userId |-> 18, email |-> "roger.instructor@example.com", role |-> "instructor", joinedAt |-> Day(308),
      profile |-> [bio |-> "Web development instructor", avatar |-> "", skills |-> {"HTML", "CSS", "JavaScript"}],
      isActive |-> TRUE, updatedAt |-> Day(625)],
     [userId |-> 19, email |-> "sophia.instructor@example.com", role |-> "instructor", joinedAt |-> Day(348),
      profile |-> [bio |-> "AI and ML instructor", avatar |-> "", skills |-> {"Python", "Machine Learning"}],
      isActive |-> TRUE, updatedAt |-> Day(627)],
     [userId |-> 20, email |-> "tom.instructor@example.com", role |-> "instructor", joinedAt |-> Day(353),
      profile |-> [bio |-> "Cloud computing instructor", avatar |-> "", skills |-> {"AWS", "Azure"}],
      isActive |-> TRUE, updatedAt |-> Day(628)],
     [userId |-> 21, email |-> "uma.student@example.com", role |-> "student", joinedAt |-> Day(396),
      profile |-> [bio |-> "Learning front-end", avatar |-> "", skills |-> {"React", "CSS"}],
      isActive |-> TRUE, updatedAt |-> Day(627)],
     [userId |-> 22, email |-> "victor.student@example.com", role |-> "student", joinedAt |-> Day(413),
      profile |-> [bio |-> "Backend beginner", avatar |-> "", skills |-> {"Node.js", "Express"}],
      isActive |-> TRUE, updatedAt |-> Day(626)],
     [userId |-> 23, email |-> "wendy.student@example.com", role |-> "student", joinedAt |-> Day(426),
      profile |-> [bio |-> "Learning DevOps", avatar |-> "", skills |-> {"Docker", "Kubernetes"}],
      isActive |-> TRUE, updatedAt |-> Day(628)],
     [userId |-> 24, email |-> "xander.student@example.com", role |-> "student", joinedAt |-> Day(391),
      profile |-> [bio |-> "Database learner", avatar |-> "", skills |-> {"SQL", "PostgreSQL"}],
      isActive |-> TRUE, updatedAt |-> Day(625)],
     [userId |-> 25, email |-> "yara.student@example.com", role |-> "student", joinedAt |-> Day(403),
      profile |-> [bio |-> "Learning AI", avatar |-> "", skills |-> {"Python", "TensorFlow"}],
      isActive |-> TRUE, updatedAt |-> Day(627)],
     [userId |-> 26, email |-> "zane.student@example.com", role |-> "student", joinedAt |-> Day(434),
      profile |-> [bio |-> "Python and ML beginner", avatar |-> "", skills |-> {"Python", "ML"}],
      isActive |-> TRUE, updatedAt |-> Day(628)],
     [userId |-> 27, email |-> "amy.student@example.com", role |-> "student", joinedAt |-> Day(383),
      profile |-> [bio |-> "Interested in cybersecurity", avatar |-> "", skills |-> {"Network Security", "Linux"}],
      isActive |-> TRUE, updatedAt |-> Day(627)],
     [userId |-> 28, email |-> "brian.student@example.com", role |-> "student", joinedAt |-> Day(423),
      profile |-> [bio |-> "Learning cloud computing", avatar |-> "", skills |-> {"AWS", "Azure"}],
      isActive |-> TRUE, updatedAt |-> Day(626)],
     [userId |-> 29, email |-> "chloe.student@example.com", role |-> "student", joinedAt |-> Day(429),
      profile |-> [bio |-> "Data science enthusiast", avatar |-> "", skills |-> {"Python", "Pandas"}],
      isActive |-> TRUE, updatedAt |-> Day(628)],
     [userId |-> 30, email |-> "daniel.student@example.com", role |-> "student", joinedAt |-> Day(387),
      profile |-> [bio |-> "Interested in AI and ML", avatar |-> "", skills |-> {"Python", "Keras"}],
      isActive |-> TRUE, updatedAt |-> Day(627)],
     [userId |-> 31, email |-> "ella.student@example.com", role |-> "student", joinedAt |-> Day(409),
      profile |-> [bio |-> "Front-end learner", avatar |-> "", skills |-> {"HTML", "CSS", "React"}],
      isActive |-> TRUE, updatedAt |-> Day(626)],
     [userId |-> 32, email |-> "fred.student@example.com", role |-> "student", joinedAt |-> Day(432),
      profile |-> [bio |-> "Learning backend development", avatar |-> "", skills |-> {"Node.js", "Express"}],
      isActive |-> TRUE, updatedAt |-> Day(628)] >>

\* courses_data (lines 454-521): 16 courses; price in cents, reviewRate in tenths.
courses_data ==
  << [courseId |-> 1, title |-> "Introduction to Python", instructorId |-> 17, category |-> "Programming",
      price |-> 4999, tags |-> {"python", "programming", "basics"}, isPublished |-> TRUE, isActive |-> TRUE,
      reviewRate |-> 45, updatedAt |-> Day(485)],
     [courseId |-> 2, title |-> "Advanced Python", instructorId |-> 18, category |-> "Programming",
      price |-> 9999, tags |-> {"python", "advanced", "OOP"}, isPublished |-> TRUE, isActive |-> TRUE,
      reviewRate |-> 48, updatedAt |-> Day(535)],
     [courseId |-> 3, title |-> "Data Science Basics", instructorId |-> 19, category |-> "Data Science",
      price |-> 5999, tags |-> {"data science", "statistics", "visualization"}, isPublished |-> TRUE, isActive |-> TRUE,
      reviewRate |-> 46, updatedAt |-> Day(530)],
     [courseId |-> 4, title |-> "Machine Learning A-Z", instructorId |-> 20, category |-> "Data Science",
      price |-> 12999, tags |-> {"machine learning", "python", "AI"}, isPublished |-> TRUE, isActive |-> TRUE,
      reviewRate |-> 47, updatedAt |-> Day(546)],
     [courseId |-> 5, title |-> "Web Development with HTML, CSS, JS", instructorId |-> 17, category |-> "Web Development",
      price |-> 7999, tags |-> {"web", "html", "css", "javascript"}, isPublished |-> TRUE, isActive |-> TRUE,
      reviewRate |-> 43, updatedAt |-> Day(509)],
     [courseId |-> 6, title |-> "React for Beginners", instructorId |-> 18, category |-> "Web Development",
      price |-> 8999, tags |-> {"react", "javascript", "frontend"}, isPublished |-> TRUE, isActive |-> TRUE,
      reviewRate |-> 44, updatedAt |-> Day(520)],
     [courseId |-> 7, title |-> "Node.js and Express", instructorId |-> 19, category |-> "Backend Development",
      price |-> 9999, tags |-> {"nodejs", "express", "backend"}, isPublished |-> TRUE, isActive |-> TRUE,
      reviewRate |-> 45, updatedAt |-> Day(555)],
     [courseId |-> 8, title |-> "Docker Essentials", instructorId |-> 20, category |-> "DevOps",
      price |-> 5999, tags |-> {"docker", "containers", "devops"}, isPublished |-> TRUE, isActive |-> TRUE,
      reviewRate |-> 42, updatedAt |-> Day(514)],
     [courseId |-> 9, title |-> "Kubernetes for Beginners", instructorId |-> 17, category |-> "DevOps",
      price |-> 7999, tags |-> {"kubernetes", "containers", "orchestration"}, isPublished |-> TRUE, isActive |-> TRUE,
      reviewRate |-> 43, updatedAt |-> Day(535)],
     [courseId |-> 10, title |-> "SQL for Beginners", instructorId |-> 18, category |-> "Database",
      price |-> 4999, tags |-> {"sql", "database", "query"}, isPublished |-> TRUE, isActive |-> TRUE,
      reviewRate |-> 44, updatedAt |-> Day(499)],
     [courseId |-> 11, title |-> "PostgreSQL Advanced", instructorId |-> 19, category |-> "Database",
      price |-> 9999, tags |-> {"postgresql", "database", "advanced"}, isPublished |-> TRUE, isActive |-> TRUE,
      reviewRate |-> 46, updatedAt |-> Day(540)],
     [courseId |-> 12, title |-> "Introduction to AI", instructorId |-> 20, category |-> "AI",
      price |-> 6999, tags |-> {"AI", "artificial intelligence", "machine learning"}, isPublished |-> TRUE, isActive |-> TRUE,
      reviewRate |-> 43, updatedAt |-> Day(520)],
     [courseId |-> 13, title |-> "Advanced AI Techniques", instructorId |-> 17, category |-> "AI",
      price |-> 14999, tags |-> {"AI", "neural networks", "deep learning"}, isPublished |-> TRUE, isActive |-> TRUE,
      reviewRate |-> 47, updatedAt |-> Day(550)],
     [courseId |-> 14, title |-> "Cloud Computing Basics", instructorId |-> 18, category |-> "Cloud",
      price |-> 5999, tags |-> {"cloud", "AWS", "azure", "basics"}, isPublished |-> TRUE, isActive |-> TRUE,
      reviewRate |-> 42, updatedAt |-> Day(516)],
     [courseId |-> 15, title |-> "AWS Certified Solutions Architect", instructorId |-> 19, category |-> "Cloud",
      price |-> 12999, tags |-> {"AWS", "cloud", "certification"}, isPublished |-> TRUE, isActive |-> TRUE,
      reviewRate |-> 46, updatedAt |-> Day(535)],
     [courseId |-> 16, title |-> "Cybersecurity Fundamentals", instructorId |-> 20, category |-> "Security",
      price |-> 7999, tags |-> {"cybersecurity", "security", "basics"}, isPublished |-> TRUE, isActive |-> TRUE,
      reviewRate |-> 44, updatedAt |-> Day(546)] >>

\* enrollments_data (lines 527-1008): 32 enrollments.
enrollments_data ==
  << [enrollmentId |-> 1, courseId |-> 1, studentId |-> 1, isActive |-> TRUE, updatedAt |-> Day(608)],
     [enrollmentId |-> 2, courseId |-> 2, studentId |-> 2, isActive |-> TRUE, updatedAt |-> Day(612)],
     [enrollmentId |-> 3, courseId |-> 3, studentId |-> 3, isActive |-> TRUE, updatedAt |-> Day(601)],
     [enrollmentId |-> 4, courseId |-> 1, studentId |-> 4, isActive |-> TRUE, updatedAt |-> Day(607)],
     [enrollmentId |-> 5, courseId |-> 4, studentId |-> 5, isActive |-> TRUE, updatedAt |-> Day(610)],
     [enrollmentId |-> 6, courseId |-> 2, studentId |-> 6, isActive |-> TRUE, updatedAt |-> Day(611)],
     [enrollmentId |-> 7, courseId |-> 5, studentId |-> 7, isActive |-> TRUE, updatedAt |-> Day(600)],
     [enrollmentId |-> 8, courseId |-> 3, studentId |-> 8, isActive |-> TRUE, updatedAt |-> Day(609)],
     [enrollmentId |-> 9, courseId |-> 6, studentId |-> 9, isActive |-> TRUE, updatedAt |-> Day(612)],
     [enrollmentId |-> 10, courseId |-> 4, studentId |-> 10, isActive |-> TRUE, updatedAt |-> Day(599)],
     [enrollmentId |-> 11, courseId |-> 5, studentId |-> 11, isActive |-> TRUE, updatedAt |-> Day(615)],
     [enrollmentId |-> 12, courseId |-> 6, studentId |-> 12, isActive |-> TRUE, updatedAt |-> Day(614)],
     [enrollmentId |-> 13, courseId |-> 7, studentId |-> 13, isActive |-> TRUE, updatedAt |-> Day(603)],
     [enrollmentId |-> 14, courseId |-> 7, studentId |-> 14, isActive |-> TRUE, updatedAt |-> Day(615)],
     [enrollmentId |-> 15, courseId |-> 8, studentId |-> 15, isActive |-> TRUE, updatedAt |-> Day(609)],
     [enrollmentId |-> 16, courseId |-> 8, studentId |-> 16, isActive |-> TRUE, updatedAt |-> Day(616)],
     [enrollmentId |-> 17, courseId |-> 9, studentId |-> 6, isActive |-> TRUE, updatedAt |-> Day(605)],
     [enrollmentId |-> 18, courseId |-> 9, studentId |-> 8, isActive |-> TRUE, updatedAt |-> Day(617)],
     [enrollmentId |-> 19, courseId |-> 10, studentId |-> 13, isActive |-> TRUE, updatedAt |-> Day(606)],
     [enrollmentId |-> 20, courseId |-> 10, studentId |-> 21, isActive |-> TRUE, updatedAt |-> Day(618)],
     [enrollmentId |-> 21, courseId |-> 11, studentId |-> 21, isActive |-> TRUE, updatedAt |-> Day(610)],
     [enrollmentId |-> 22, courseId |-> 11, studentId |-> 22, isActive |-> TRUE, updatedAt |-> Day(619)],
     [enrollmentId |-> 23, courseId |-> 12, studentId |-> 23, isActive |-> TRUE, updatedAt |-> Day(608)],
     [enrollmentId |-> 24, courseId |-> 12, studentId |-> 24, isActive |-> TRUE, updatedAt |-> Day(620)],
     [enrollmentId |-> 25, courseId |-> 13, studentId |-> 25, isActive |-> TRUE, updatedAt |-> Day(611)],
     [enrollmentId |-> 26, courseId |-> 13, studentId |-> 26, isActive |-> TRUE, updatedAt |-> Day(621)],
     [enrollmentId |-> 27, courseId |-> 14, studentId |-> 27, isActive |-> TRUE, updatedAt |-> Day(609)],
     [enrollmentId |-> 28, courseId |-> 14, studentId |-> 28, isActive |-> TRUE, updatedAt |-> Day(622)],
     [enrollmentId |-> 29, courseId |-> 15, studentId |-> 29, isActive |-> TRUE, updatedAt |-> Day(612)],
     [enrollmentId |-> 30, courseId |-> 15, studentId |-> 30, isActive |-> TRUE, updatedAt |-> Day(623)],
     [enrollmentId |-> 31, courseId |-> 16, studentId |-> 31, isActive |-> TRUE, updatedAt |-> Day(610)],
     [enrollmentId |-> 32, courseId |-> 16, studentId |-> 32, isActive |-> TRUE, updatedAt |-> Day(624)] >>

\* lessons_data (lines 1014-1055): 40 lessons.
lessons_data ==
  << [lessonId |-> 1, courseId |-> 1, assignmentId |-> 1, isActive |-> TRUE, updatedAt |-> Day(365)],
     [lessonId |-> 2, courseId |-> 1, assignmentId |-> 2, isActive |-> TRUE, updatedAt |-> Day(366)],
     [lessonId |-> 3, courseId |-> 2, assignmentId |-> 3, isActive |-> TRUE, updatedAt |-> Day(367)],
     [lessonId |-> 4, courseId |-> 2, assignmentId |-> 4, isActive |-> TRUE, updatedAt |-> Day(368)],
     [lessonId |-> 5, courseId |-> 3, assignmentId |-> 5, isActive |-> TRUE, updatedAt |-> Day(369)],
     [lessonId |-> 6, courseId |-> 3, assignmentId |-> 6, isActive |-> TRUE, updatedAt |-> Day(370)],
     [lessonId |-> 7, courseId |-> 4, assignmentId |-> 7, isActive |-> TRUE, updatedAt |-> Day(371)],
     [lessonId |-> 8, courseId |-> 4, assignmentId |-> 8, isActive |-> TRUE, updatedAt |-> Day(372)],
     [lessonId |-> 9, courseId |-> 5, assignmentId |-> 9, isActive |-> TRUE, updatedAt |-> Day(373)],
     [lessonId |-> 10, courseId |-> 5, assignmentId |-> 10, isActive |-> TRUE, updatedAt |-> Day(374)],
     [lessonId |-> 11, courseId |-> 6, assignmentId |-> 11, isActive |-> TRUE, updatedAt |-> Day(375)],
     [lessonId |-> 12, courseId |-> 6, assignmentId |-> 12, isActive |-> TRUE, updatedAt |-> Day(376)],
     [lessonId |-> 13, courseId |-> 7, assignmentId |-> 13, isActive |-> TRUE, updatedAt |-> Day(377)],
     [lessonId |-> 14, courseId |-> 7, assignmentId |-> 14, isActive |-> TRUE, updatedAt |-> Day(378)],
     [lessonId |-> 15, courseId |-> 8, assignmentId |-> 15, isActive |-> TRUE, updatedAt |-> Day(379)],
     [lessonId |-> 16, courseId |-> 8, assignmentId |-> 16, isActive |-> TRUE, updatedAt |-> Day(380)],
     [lessonId |-> 17, courseId |-> 9, assignmentId |-> 17, isActive |-> TRUE, updatedAt |-> Day(381)],
     [lessonId |-> 18, courseId |-> 9, assignmentId |-> 18, isActive |-> TRUE, updatedAt |-> Day(382)],
     [lessonId |-> 19, courseId |-> 10, assignmentId |-> 19, isActive |-> TRUE, updatedAt |-> Day(383)],
     [lessonId |-> 20, courseId |-> 10, assignmentId |-> 20, isActive |-> TRUE, updatedAt |-> Day(384)],
     [lessonId |-> 21, courseId |-> 11, assignmentId |-> 21, isActive |-> TRUE, updatedAt |-> Day(385)],
     [lessonId |-> 22, courseId |-> 11, assignmentId |-> 22, isActive |-> TRUE, updatedAt |-> Day(386)],
     [lessonId |-> 23, courseId |-> 12, assignmentId |-> 23, isActive |-> TRUE, updatedAt |-> Day(387)],
     [lessonId |-> 24, courseId |-> 12, assignmentId |-> 24, isActive |-> TRUE, updatedAt |-> Day(388)],
     [lessonId |-> 25, courseId |-> 13, assignmentId |-> 25, isActive |-> TRUE, updatedAt |-> Day(389)],
     [lessonId |-> 26, courseId |-> 13, assignmentId |-> 26, isActive |-> TRUE, updatedAt |-> Day(390)],
     [lessonId |-> 27, courseId |-> 14, assignmentId |-> 27, isActive |-> TRUE, updatedAt |-> Day(391)],
     [lessonId |-> 28, courseId |-> 14, assignmentId |-> 28, isActive |-> TRUE, updatedAt |-> Day(392)],
     [lessonId |-> 29, courseId |-> 15, assignmentId |-> 29, isActive |-> TRUE, updatedAt |-> Day(393)],
     [lessonId |-> 30, courseId |-> 15, assignmentId |-> 30, isActive |-> TRUE, updatedAt |-> Day(394)],
     [lessonId |-> 31, courseId |-> 1, assignmentId |-> 31, isActive |-> TRUE, updatedAt |-> Day(396)],
     [lessonId |-> 32, courseId |-> 2, assignmentId |-> 32, isActive |-> TRUE, updatedAt |-> Day(397)],
     [lessonId |-> 33, courseId |-> 3, assignmentId |-> 33, isActive |-> TRUE, updatedAt |-> Day(398)],
     [lessonId |-> 34, courseId |-> 4, assignmentId |-> 34, isActive |-> TRUE, updatedAt |-> Day(399)],
     [lessonId |-> 35, courseId |-> 5, assignmentId |-> 35, isActive |-> TRUE, updatedAt |-> Day(400)],
     [lessonId |-> 36, courseId |-> 6, assignmentId |-> 36, isActive |-> TRUE, updatedAt |-> Day(401)],
     [lessonId |-> 37, courseId |-> 7, assignmentId |-> 37, isActive |-> TRUE, updatedAt |-> Day(402)],
     [lessonId |-> 38, courseId |-> 8, assignmentId |-> 38, isActive |-> TRUE, updatedAt |-> Day(403)],
     [lessonId |-> 39, courseId |-> 9, assignmentId |-> 39, isActive |-> TRUE, updatedAt |-> Day(404)],
     [lessonId |-> 40, courseId |-> 10, assignmentId |-> 40, isActive |-> TRUE, updatedAt |-> Day(405)] >>

\* assignments_data (lines 1061-1077): 15 assignments.
assignments_data ==
  << [assignmentId |-> 1, lessonId |-> 1, courseId |-> 1, dueDate |-> Day(369), isActive |-> TRUE, updatedAt |-> Day(365)],
     [assignmentId |-> 2, lessonId |-> 2, courseId |-> 1, dueDate |-> Day(370), isActive |-> TRUE, updatedAt |-> Day(366)],
     [assignmentId |-> 3, lessonId |-> 3, courseId |-> 2, dueDate |-> Day(371), isActive |-> TRUE, updatedAt |-> Day(367)],
     [assignmentId |-> 4, lessonId |-> 4, courseId |-> 2, dueDate |-> Day(372), isActive |-> TRUE, updatedAt |-> Day(368)],
     [assignmentId |-> 5, lessonId |-> 5, courseId |-> 3, dueDate |-> Day(373), isActive |-> TRUE, updatedAt |-> Day(369)],
     [assignmentId |-> 6, lessonId |-> 6, courseId |-> 3, dueDate |-> Day(374), isActive |-> TRUE, updatedAt |-> Day(370)],
     [assignmentId |-> 7, lessonId |-> 7, courseId |-> 4, dueDate |-> Day(375), isActive |-> TRUE, updatedAt |-> Day(371)],
     [assignmentId |-> 8, lessonId |-> 8, courseId |-> 4, dueDate |-> Day(376), isActive |-> TRUE, updatedAt |-> Day(372)],
     [assignmentId |-> 9, lessonId |-> 9, courseId |-> 5, dueDate |-> Day(377), isActive |-> TRUE, updatedAt |-> Day(373)],
     [assignmentId |-> 10, lessonId |-> 10, courseId |-> 5, dueDate |-> Day(378), isActive |-> TRUE, updatedAt |-> Day(374)],
     [assignmentId |-> 11, lessonId |-> 11, courseId |-> 6, dueDate |-> Day(379), isActive |-> TRUE, updatedAt |-> Day(375)],
     [assignmentId |-> 12, lessonId |-> 12, courseId |-> 6, dueDate |-> Day(380), isActive |-> TRUE, updatedAt |-> Day(376)],
     [assignmentId |-> 13, lessonId |-> 13, courseId |-> 7, dueDate |-> Day(381), isActive |-> TRUE, updatedAt |-> Day(377)],
     [assignmentId |-> 14, lessonId |-> 14, courseId |-> 7, dueDate |-> Day(382), isActive |-> TRUE, updatedAt |-> Day(378)],
     [assignmentId |-> 15, lessonId |-> 15, courseId |-> 8, dueDate |-> Day(383), isActive |-> TRUE, updatedAt |-> Day(379)] >>

\* submissions_data (lines 1083-1104): 20 submissions.
submissions_data ==
  << [submissionId |-> 1, enrollmentId |-> 1, assignmentId |-> 1, grade |-> 95, updatedAt |-> Day(369)],
     [submissionId |-> 2, enrollmentId |-> 2, assignmentId |-> 1, grade |-> 90, updatedAt |-> Day(369)],
     [submissionId |-> 3, enrollmentId |-> 1, assignmentId |-> 2, grade |-> 98, updatedAt |-> Day(370)],
     [submissionId |-> 4, enrollmentId |-> 3, assignmentId |-> 3, grade |-> 88, updatedAt |-> Day(371)],
     [submissionId |-> 5, enrollmentId |-> 2, assignmentId |-> 2, grade |-> 92, updatedAt |-> Day(370)],
     [submissionId |-> 6, enrollmentId |-> 4, assignmentId |-> 4, grade |-> 85, updatedAt |-> Day(372)],
     [submissionId |-> 7, enrollmentId |-> 1, assignmentId |-> 3, grade |-> 90, updatedAt |-> Day(371)],
     [submissionId |-> 8, enrollmentId |-> 5, assignmentId |-> 5, grade |-> 93, updatedAt |-> Day(373)],
     [submissionId |-> 9, enrollmentId |-> 3, assignmentId |-> 4, grade |-> 89, updatedAt |-> Day(372)],
     [submissionId |-> 10, enrollmentId |-> 6, assignmentId |-> 6, grade |-> 97, updatedAt |-> Day(374)],
     [submissionId |-> 11, enrollmentId |-> 4, assignmentId |-> 5, grade |-> 91, updatedAt |-> Day(373)],
     [submissionId |-> 12, enrollmentId |-> 2, assignmentId |-> 6, grade |-> 94, updatedAt |-> Day(374)],
     [submissionId |-> 13, enrollmentId |-> 1, assignmentId |-> 7, grade |-> 96, updatedAt |-> Day(375)],
     [submissionId |-> 14, enrollmentId |-> 5, assignmentId |-> 7, grade |-> 95, updatedAt |-> Day(375)],
     [submissionId |-> 15, enrollmentId |-> 6, assignmentId |-> 8, grade |-> 92, updatedAt |-> Day(376)],
     [submissionId |-> 16, enrollmentId |-> 3, assignmentId |-> 8, grade |-> 90, updatedAt |-> Day(376)],
     [submissionId |-> 17, enrollmentId |-> 4, assignmentId |-> 9, grade |-> 94, updatedAt |-> Day(377)],
     [submissionId |-> 18, enrollmentId |-> 5, assignmentId |-> 10, grade |-> 93, updatedAt |-> Day(378)],
     [submissionId |-> 19, enrollmentId |-> 1, assignmentId |-> 11, grade |-> 95, updatedAt |-> Day(379)],
     [submissionId |-> 20, enrollmentId |-> 6, assignmentId |-> 12, grade |-> 96, updatedAt |-> Day(380)] >>

\* ------------------------------------------------------------------- state
VARIABLES
  db,           \* db[c]: the documents of collection c, in natural order
  collections,  \* the collections that exist on the server
  validators,   \* the collections created with a $jsonSchema validator
  indexes,      \* the indexes created, as [coll, keys, unique]
  schemas,      \* user_schema, ..., enrollment_schema (lines 262-267)
  new_doc,      \* new_user / new_course / new_enrollment / new_lesson
  generated,    \* <<collection, _id>> of the documents stored with an id
                \* taken from get_next_id (lines 1129-1229)
  pc,           \* index of the next statement of the script; 0 after an
                \* uncaught exception
  runs,         \* number of runs of the script started so far
  failures,     \* number of database calls that raised so far
  now,          \* datetime.now()
  nextOid,      \* the next ObjectId the driver generates
  call,         \* the last call made: [op, coll, arg, raised]
  ret           \* what that call returned

vars ==
  <<db, collections, validators, indexes, schemas, new_doc, generated, pc,
    runs, failures, now, nextOid, call, ret>>

\* ---------------------------------------------------------------- documents
\* The document without fields, and the results of a call that returns nothing.
EmptyDoc == <<>>

Has(doc, f) == f \in DOMAIN doc

\* The fields that hold an id, which get_next_id may have left None.
IdFields ==
  {"userId", "courseId", "enrollmentId", "lessonId", "assignmentId",
   "submissionId", "studentId", "instructorId"}

\* BSON treats a missing field and null alike in sort order and in indexes.
IsNull(doc, f) == ~Has(doc, f) \/ (f \in IdFields /\ doc[f] = None)

\* str(ObjectId): the hex string of the id, one string per id.
Str(oid) == <<"str", oid>>

Min(a, b) == IF a < b THEN a ELSE b

\* A filter is a sequence of conditions [f, op, a] that must all hold.
\* $regex with $options "i" on the title: TLC strings are atoms, so the
\* case-insensitive substring test is tabulated for the pattern the script
\* uses ("aWs") over the titles of the data.
RegexI(title, pattern) ==
  pattern = "aWs" /\ title \in {"AWS Certified Solutions Architect"}

Holds(doc, cond) ==
  /\ Has(doc, cond.f)
  /\ CASE cond.op = "$eq" -> doc[cond.f] = cond.a
       [] cond.op = "$gte" -> doc[cond.f] >= cond.a
       [] cond.op = "$lte" -> doc[cond.f] <= cond.a
       [] cond.op = "$in" -> doc[cond.f] \cap cond.a # {}
       [] cond.op = "$regex" -> RegexI(doc[cond.f], cond.a)

Matches(doc, query) == \A i \in DOMAIN query : Holds(doc, query[i])

\* collection.find(filter_query), as a list
find(docs, query) == SelectSeq(docs, LAMBDA d : Matches(d, query))

\* An update document: $set on top-level fields, $set on dotted paths
\* ("profile.bio") and $addToSet with $each.
SetOnly(fields) == [set |-> fields, setIn |-> EmptyDoc, addToSet |-> EmptyDoc]

ApplyUpdate(doc, u) ==
  LET d1 == u.set @@ doc
      d2 == [f \in DOMAIN d1 \cup DOMAIN u.setIn |->
               IF f \in DOMAIN u.setIn
               THEN u.setIn[f] @@ (IF Has(d1, f) THEN d1[f] ELSE EmptyDoc)
               ELSE d1[f]]
  IN [f \in DOMAIN d2 \cup DOMAIN u.addToSet |->
        IF f \in DOMAIN u.addToSet
        THEN (IF Has(d2, f) THEN d2[f] ELSE {}) \cup u.addToSet[f]
        ELSE d2[f]]

\* ------------------------------------------------------ server-side checks
\* The JSON schema files are not part of the sources.  The validator is
\* modelled by the one rule every id-carrying schema has to state: the
\* collection's id field is present and is a positive integer.
SatisfiesSchema(c, doc) == Has(doc, IdField(c)) /\ doc[IdField(c)] >= 1

\* Mutant: only the first field of the index counts, as if line 333 had
\* made courseId alone unique.
SameKeyFirstField(d1, d2, keys) ==
  IF IsNull(d1, keys[1]) \/ IsNull(d2, keys[1])
  THEN IsNull(d1, keys[1]) /\ IsNull(d2, keys[1])
  ELSE d1[keys[1]] = d2[keys[1]]

\* Two documents have the same key under an index.
SameKey(d1, d2, keys) ==
  \A i \in DOMAIN keys :
    IF IsNull(d1, keys[i]) \/ IsNull(d2, keys[i])
    THEN IsNull(d1, keys[i]) /\ IsNull(d2, keys[i])
    ELSE d1[keys[i]] = d2[keys[i]]

\* Mutant: the compound index of line 333 created without unique=True.
UniqueIndexesSingleField(c) ==
  {ix \in indexes : ix.coll = c /\ ix.unique /\ Len(ix.keys) = 1}

UniqueIndexes(c) == {ix \in indexes : ix.coll = c /\ ix.unique}

\* Mutant: the indexes created without unique=True, so nothing is checked.
NoDuplicateKeyUnchecked(docs, c, doc) == TRUE

\* No document of docs has the key of doc under a unique index of c.
NoDuplicateKey(docs, c, doc) ==
  \A ix \in UniqueIndexes(c) :
    \A i \in DOMAIN docs : ~SameKey(docs[i], doc, ix.keys)

\* The server accepts doc into collection c holding docs.
Accepts(docs, c, doc) ==
  /\ c \in validators => SatisfiesSchema(c, doc)
  /\ NoDuplicateKey(docs, c, doc)

\* ------------------------------------------------------- helper functions
dbvars == <<db, collections, validators, indexes>>

\* A database call raises for a reason outside the program (connection
\* lost, server down); the number of such faults is bounded.
Fault == failures < MaxFailures /\ failures' = failures + 1
NoFault == failures' = failures

\* raised: an exception occurred inside the call; propagated: it was not
\* caught there, so the call returned nothing and the caller is left.
Called(op, c, arg, raised) ==
  call' = [op |-> op, coll |-> c, arg |-> arg, raised |-> raised,
           propagated |-> FALSE]

Propagated(op, c, arg) ==
  call' = [op |-> op, coll |-> c, arg |-> arg, raised |-> TRUE,
           propagated |-> TRUE]

\* collection.find_one(sort=[(id_field, -1)]): the positions of the documents
\* that may come first when sorting by id_field, highest first.
SortKey(doc, id_field) == IF IsNull(doc, id_field) THEN None ELSE doc[id_field]

\* Mutant: sort=[(id_field, 1)], the lowest id first.
SortedFirstAscending(docs, id_field) ==
  {i \in DOMAIN docs :
     \A j \in DOMAIN docs : SortKey(docs[i], id_field) <= SortKey(docs[j], id_field)}

SortedFirst(docs, id_field) ==
  {i \in DOMAIN docs :
     \A j \in DOMAIN docs : SortKey(docs[j], id_field) <= SortKey(docs[i], id_field)}

\* Mutant: the next id taken to be the number of documents plus one.
NextIdFromCount(docs, id_field, last) == Len(docs) + 1

\* Lines 46-63, given the document find_one returned (last = 0: no document).
NextIdFrom(docs, id_field, last) ==
  IF last # 0 /\ Has(docs[last], id_field)
  THEN (IF docs[last][id_field] = None THEN None   \* None + 1: TypeError, caught
        ELSE docs[last][id_field] + 1)
  ELSE 1

\* Mutant: the except branch returns 1, as the function does for an
\* empty collection.
get_next_id_except_1(c, id_field) ==
  /\ UNCHANGED <<dbvars, nextOid>>
  /\ \/ /\ Fault
        /\ Called("get_next_id", c, id_field, TRUE)
        /\ ret' = 1
     \/ /\ NoFault
        /\ \E last \in IF db[c] = <<>> THEN {0} ELSE SortedFirst(db[c], id_field) :
             LET next_id == NextIdFrom(db[c], id_field, last)
             IN /\ Called("get_next_id", c, id_field, next_id = None)
                /\ ret' = next_id

get_next_id(c, id_field) ==
  /\ UNCHANGED <<dbvars, nextOid>>
  /\ \/ /\ Fault
        /\ Called("get_next_id", c, id_field, TRUE)
        /\ ret' = None
     \/ /\ NoFault
        /\ \E last \in IF db[c] = <<>> THEN {0} ELSE SortedFirst(db[c], id_field) :
             LET next_id == NextIdFrom(db[c], id_field, last)
             IN /\ Called("get_next_id", c, id_field, next_id = None)
                /\ ret' = next_id

\* The schema files of lines 262-267; the parsed content of a file is
\* represented by its position in this list.
SchemaFiles ==
  <<"user_collection_schema.json", "course_collection_schema.json",
    "lesson_collection_schema.json", "assignment_collection_schema.json",
    "submission_collection_schema.json", "enrollment_collection_schema.json">>

Parsed(file_path) == CHOOSE i \in DOMAIN SchemaFiles : SchemaFiles[i] = file_path

\* Lines 77-87.  The file is there and holds JSON, is missing, or holds
\* something json.load rejects; only FileNotFoundError is caught, so the
\* third case leaves the function by an exception (no value is returned).
FileStates == {"json", "missing", "invalid"}

load_json_file(file_path, state) ==
  /\ UNCHANGED <<dbvars, nextOid>>
  /\ IF state = "json" THEN NoFault ELSE Fault
  /\ IF state = "invalid"
     THEN Propagated("load_json_file", "", file_path)
     ELSE Called("load_json_file", "", file_path, state = "missing")
  /\ ret' = IF state = "json" THEN Parsed(file_path) ELSE None

\* Mutant: True is returned from the except branch as well.
create_collection_with_schema_True(c, schema) ==
  /\ UNCHANGED <<db, indexes, nextOid>>
  /\ \/ /\ Fault
        /\ UNCHANGED <<collections, validators>>
        /\ Called("create_collection_with_schema", c, schema, TRUE)
     \/ /\ NoFault
        /\ IF c \notin collections /\ schema # None
           THEN /\ collections' = collections \cup {c}
                /\ validators' = validators \cup {c}
                /\ Called("create_collection_with_schema", c, schema, FALSE)
           ELSE /\ UNCHANGED <<collections, validators>>
                /\ Called("create_collection_with_schema", c, schema, TRUE)
  /\ ret' = TRUE

\* Lines 103-118.  db.create_collection raises when the collection exists
\* (CollectionInvalid) and when the validator is not a document
\* ($jsonSchema: None).
create_collection_with_schema(c, schema) ==
  /\ UNCHANGED <<db, indexes, nextOid>>
  /\ \/ /\ Fault
        /\ Called("create_collection_with_schema", c, schema, TRUE)
        /\ ret' = FALSE
        /\ UNCHANGED <<collections, validators>>
     \/ /\ NoFault
        /\ IF c \notin collections /\ schema # None
           THEN /\ collections' = collections \cup {c}
                /\ validators' = validators \cup {c}
                /\ Called("create_collection_with_schema", c, schema, FALSE)
                /\ ret' = TRUE
           ELSE /\ UNCHANGED <<collections, validators>>
                /\ Called("create_collection_with_schema", c, schema, TRUE)
                /\ ret' = FALSE

\* Mutant: find called without the try/except around it.
read_document_unguarded(c, filter_query) ==
  /\ UNCHANGED <<dbvars, nextOid>>
  /\ \/ /\ Fault
        /\ Propagated("read_document", c, filter_query)
        /\ ret' = <<>>
     \/ /\ NoFault
        /\ Called("read_document", c, filter_query, FALSE)
        /\ ret' = find(db[c], filter_query)

\* Mutant: collection.find_one in place of find, so that at most the
\* first matching document is returned.
read_document_find_one(c, filter_query) ==
  /\ UNCHANGED <<dbvars, nextOid>>
  /\ \/ /\ Fault
        /\ Called("read_document", c, filter_query, TRUE)
        /\ ret' = <<>>
     \/ /\ NoFault
        /\ Called("read_document", c, filter_query, FALSE)
        /\ LET result == find(db[c], filter_query)
           IN ret' = IF result = <<>> THEN <<>> ELSE <<result[1]>>

\* Lines 139-151.
read_document(c, filter_query) ==
  /\ UNCHANGED <<dbvars, nextOid>>
  /\ \/ /\ Fault
        /\ Called("read_document", c, filter_query, TRUE)
        /\ ret' = <<>>
     \/ /\ NoFault
        /\ Called("read_document", c, filter_query, FALSE)
        /\ ret' = find(db[c], filter_query)

\* Mutant: insert_one called without the try/except around it.
create_document_unguarded(c, document) ==
  /\ UNCHANGED <<validators, indexes>>
  /\ \/ /\ Fault
        /\ Propagated("create_document", c, document)
        /\ ret' = None
        /\ UNCHANGED <<db, collections, nextOid>>
     \/ /\ NoFault
        /\ IF Accepts(db[c], c, document)
           THEN /\ db' = [db EXCEPT ![c] = Append(@, ("_id" :> nextOid) @@ document)]
                /\ collections' = collections \cup {c}
                /\ nextOid' = nextOid + 1
                /\ Called("create_document", c, document, FALSE)
                /\ ret' = Str(nextOid)
           ELSE /\ UNCHANGED <<db, collections, nextOid>>
                /\ Propagated("create_document", c, document)
                /\ ret' = None

\* Lines 162-174.  insert_one stores the document under a fresh _id, and
\* creates the collection (without validator) when it does not exist.
\* The connection may be lost before the server has the insert, or after
\* it has stored the document and before the driver has the
\* acknowledgement: insert_one raises in both cases.
create_document(c, document) ==
  /\ UNCHANGED <<validators, indexes>>
  /\ \/ /\ Fault
        /\ Called("create_document", c, document, TRUE)
        /\ ret' = None
        /\ \/ UNCHANGED <<db, collections, nextOid>>
           \/ /\ Accepts(db[c], c, document)
              /\ db' = [db EXCEPT ![c] = Append(@, ("_id" :> nextOid) @@ document)]
              /\ collections' = collections \cup {c}
              /\ nextOid' = nextOid + 1
     \/ /\ NoFault
        /\ IF Accepts(db[c], c, document)
           THEN /\ db' = [db EXCEPT ![c] = Append(@, ("_id" :> nextOid) @@ document)]
                /\ collections' = collections \cup {c}
                /\ nextOid' = nextOid + 1
                /\ Called("create_document", c, document, FALSE)
                /\ ret' = Str(nextOid)
           ELSE /\ UNCHANGED <<db, collections, nextOid>>
                /\ Called("create_document", c, document, TRUE)
                /\ ret' = None

\* insert_many, ordered: the documents are stored one by one, up to the
\* first one the server rejects, or up to `limit` documents when the
\* connection is lost after that many.
RECURSIVE insert_many(_, _, _, _, _, _)
insert_many(docs, c, documents, i, limit, oid) ==
  IF i > Len(documents) \/ i > limit \/ ~Accepts(docs, c, documents[i])
  THEN docs
  ELSE insert_many(Append(docs, ("_id" :> oid) @@ documents[i]), c, documents,
                   i + 1, limit, oid + 1)

\* Mutant: the except branch returns the ids of the documents that were
\* stored before the failure.
create_documents_partial_ids(c, documents, id_field) ==
  /\ UNCHANGED <<validators, indexes>>
  /\ \/ /\ Fault
        /\ \E limit \in 0 .. Min(MaxPartial, Len(documents) - 1) :
             db' = [db EXCEPT ![c] = insert_many(@, c, documents, 1, limit, nextOid)]
        /\ Called("create_documents", c, id_field, TRUE)
     \/ /\ NoFault
        /\ db' = [db EXCEPT ![c] =
                    insert_many(@, c, documents, 1, Len(documents), nextOid)]
        /\ Called("create_documents", c, id_field,
                  documents = <<>> \/ Len(db'[c]) - Len(db[c]) # Len(documents))
  /\ ret' = [i \in 1 .. Len(db'[c]) - Len(db[c]) |-> Str(nextOid + i - 1)]
  /\ nextOid' = nextOid + (Len(db'[c]) - Len(db[c]))
  /\ collections' = IF db'[c] # <<>> THEN collections \cup {c} ELSE collections

\* Lines 185-197.
create_documents(c, documents, id_field) ==
  /\ UNCHANGED <<validators, indexes>>
  /\ \/ /\ Fault
        /\ \E limit \in 0 .. Min(MaxPartial, Len(documents) - 1) :
             db' = [db EXCEPT ![c] = insert_many(@, c, documents, 1, limit, nextOid)]
        /\ Called("create_documents", c, id_field, TRUE)
        /\ ret' = <<>>
     \/ /\ NoFault
        /\ db' = [db EXCEPT ![c] =
                    insert_many(@, c, documents, 1, Len(documents), nextOid)]
        /\ LET inserted == Len(db'[c]) - Len(db[c])
           IN IF documents # <<>> /\ inserted = Len(documents)
              THEN /\ Called("create_documents", c, id_field, FALSE)
                   /\ ret' = [i \in 1 .. inserted |-> Str(nextOid + i - 1)]
              ELSE /\ Called("create_documents", c, id_field, TRUE)
                   /\ ret' = <<>>
  /\ nextOid' = nextOid + (Len(db'[c]) - Len(db[c]))
  /\ collections' = IF db'[c] # <<>> THEN collections \cup {c} ELSE collections

\* update_many: the matching documents are updated one by one in natural
\* order; an update the validator or a unique index rejects raises and
\* leaves the documents updated before it as they are.
OthersAccept(docs, c, i, doc) ==
  /\ c \in validators => SatisfiesSchema(c, doc)
  /\ \A ix \in UniqueIndexes(c) :
       \A j \in DOMAIN docs : j # i => ~SameKey(docs[j], doc, ix.keys)

RECURSIVE update_many(_, _, _, _, _, _)
update_many(docs, c, filter_query, update, i, modified) ==
  IF i > Len(docs)
  THEN [docs |-> docs, modified_count |-> modified, error |-> FALSE]
  ELSE IF ~Matches(docs[i], filter_query)
  THEN update_many(docs, c, filter_query, update, i + 1, modified)
  ELSE LET doc == ApplyUpdate(docs[i], update)
       IN IF doc = docs[i]
          THEN update_many(docs, c, filter_query, update, i + 1, modified)
          ELSE IF ~OthersAccept(docs, c, i, doc)
          THEN [docs |-> docs, modified_count |-> modified, error |-> TRUE]
          ELSE update_many([docs EXCEPT ![i] = doc], c, filter_query, update,
                           i + 1, modified + 1)

\* Lines 208-220 with op = "update_document", lines 232-250 with
\* op = "delete_document": both call update_many and return modified_count.
\* When the connection is lost the server may or may not have done the
\* update; the except branch returns 0 either way.
UpdateCall(op, c, filter_query, update) ==
  /\ UNCHANGED <<collections, validators, indexes, nextOid>>
  /\ \/ /\ Fault
        /\ Called(op, c, filter_query, TRUE)
        /\ ret' = 0
        /\ \/ UNCHANGED db
           \/ db' = [db EXCEPT ![c] =
                       update_many(@, c, filter_query, update, 1, 0).docs]
     \/ /\ NoFault
        /\ LET result == update_many(db[c], c, filter_query, update, 1, 0)
           IN /\ db' = [db EXCEPT ![c] = result.docs]
              /\ Called(op, c, filter_query, result.error)
              /\ ret' = IF result.error THEN 0 ELSE result.modified_count

\* Mutant: collection.update_one in place of update_many, so that only
\* the first matching document is updated.
update_document_update_one(c, filter_query, update_data) ==
  /\ UNCHANGED <<collections, validators, indexes, nextOid>>
  /\ \/ /\ Fault
        /\ Called("update_document", c, filter_query, TRUE)
        /\ ret' = 0
        /\ UNCHANGED db
     \/ /\ NoFault
        /\ LET first == {i \in DOMAIN db[c] :
                          /\ Matches(db[c][i], filter_query)
                          /\ \A j \in 1 .. i - 1 : ~Matches(db[c][j], filter_query)}
           IN /\ db' = [db EXCEPT ![c] =
                         [i \in DOMAIN @ |->
                            IF i \in first THEN ApplyUpdate(@[i], update_data)
                            ELSE @[i]]]
              /\ Called("update_document", c, filter_query, FALSE)
              /\ ret' = Cardinality({i \in first : db'[c][i] # db[c][i]})

update_document(c, filter_query, update_data) ==
  UpdateCall("update_document", c, filter_query, update_data)

\* Mutant: collection.delete_many in place of the update.
delete_many(c, document_query) ==
  /\ UNCHANGED <<collections, validators, indexes, nextOid>>
  /\ NoFault
  /\ db' = [db EXCEPT ![c] = SelectSeq(@, LAMBDA d : ~Matches(d, document_query))]
  /\ Called("delete_document", c, document_query, FALSE)
  /\ ret' = Len(db[c]) - Len(db'[c])
  /\ now' = now + 1

\* Mutant: the flag is flipped (isActive set to the opposite of what the
\* document holds) in place of being set to False.
delete_document_toggle(c, document_query) ==
  /\ UNCHANGED <<collections, validators, indexes, nextOid>>
  /\ NoFault
  /\ db' = [db EXCEPT ![c] =
              [i \in DOMAIN @ |->
                 IF Matches(@[i], document_query)
                 THEN [isActive |-> ~(Has(@[i], "isActive") /\ @[i].isActive),
                       updatedAt |-> now] @@ @[i]
                 ELSE @[i]]]
  /\ Called("delete_document", c, document_query, FALSE)
  /\ ret' = Cardinality({i \in DOMAIN db[c] : Matches(db[c][i], document_query)})
  /\ now' = now + 1

\* The soft delete evaluates datetime.now() itself.
delete_document(c, document_query) ==
  /\ UpdateCall("delete_document", c, document_query,
                SetOnly([isActive |-> FALSE, updatedAt |-> now]))
  /\ now' = now + 1

\* Lines 325-345 and 1698-1729: collection.create_index, called directly.
\* It creates the collection when needed, raises DuplicateKeyError when a
\* unique index is asked for and two documents share the key, raises when
\* an index on the same keys exists with another uniqueness, and does
\* nothing when the same index exists.
KeyOf(doc, keys) == [k \in DOMAIN keys |-> SortKey(doc, keys[k])]

HasDuplicates(docs, keys) ==
  Cardinality({KeyOf(docs[i], keys) : i \in DOMAIN docs}) < Len(docs)

\* Mutant: create_index wrapped in a try/except like the helper
\* functions, so that the script goes on when the index is not created.
create_index_guarded(c, keys, unique) ==
  /\ UNCHANGED <<db, validators, nextOid>>
  /\ ret' = None
  /\ \/ /\ Fault
        /\ Called("create_index", c, keys, TRUE)
        /\ UNCHANGED <<collections, indexes>>
     \/ /\ NoFault
        /\ IF \/ unique /\ HasDuplicates(db[c], keys)
              \/ [coll |-> c, keys |-> keys, unique |-> ~unique] \in indexes
           THEN /\ Called("create_index", c, keys, TRUE)
                /\ UNCHANGED <<collections, indexes>>
           ELSE /\ Called("create_index", c, keys, FALSE)
                /\ collections' = collections \cup {c}
                /\ indexes' = indexes \cup {[coll |-> c, keys |-> keys, unique |-> unique]}

create_index(c, keys, unique) ==
  /\ UNCHANGED <<db, validators, nextOid>>
  /\ ret' = None
  /\ \/ /\ Fault
        /\ Propagated("create_index", c, keys)
        /\ UNCHANGED <<collections, indexes>>
     \/ /\ NoFault
        /\ IF \/ unique /\ HasDuplicates(db[c], keys)
              \/ [coll |-> c, keys |-> keys, unique |-> ~unique] \in indexes
           THEN /\ Propagated("create_index", c, keys)
                /\ UNCHANGED <<collections, indexes>>
           ELSE /\ Called("create_index", c, keys, FALSE)
                /\ collections' = collections \cup {c}
                /\ indexes' = indexes \cup {[coll |-> c, keys |-> keys, unique |-> unique]}

\* ------------------------------------------------------------ aggregation
\* The values of field f over a sequence of documents.
Values(docs, f) == {SortKey(docs[i], f) : i \in DOMAIN docs}

\* Sum of docs[i][f] over the positions in S.
RECURSIVE SumOver(_, _, _)
SumOver(docs, f, S) ==
  IF S = {} THEN 0
  ELSE LET i == CHOOSE x \in S : TRUE
       IN docs[i][f] + SumOver(docs, f, S \ {i})

\* Mutant: {"$sum": "$courseId"} in place of {"$sum": 1}.
GroupSumOfKey(docs, key) ==
  {[_id |-> k,
    totalEnrollments |->
      k * Cardinality({i \in DOMAIN docs : SortKey(docs[i], key) = k})]
     : k \in Values(docs, key)}

\* {"$group": {"_id": "$key", "totalEnrollments": {"$sum": 1}}}
GroupCount(docs, key) ==
  {[_id |-> k,
    totalEnrollments |-> Cardinality({i \in DOMAIN docs : SortKey(docs[i], key) = k})]
     : k \in Values(docs, key)}

\* {"$group": {"_id": "$key", <avg>: {"$avg": "$f"}}}: the average is kept
\* as the pair sum / n of the numeric values (n = 0: the average is null).
GroupAvg(docs, key, f) ==
  {LET S == {i \in DOMAIN docs :
                SortKey(docs[i], key) = k /\ Has(docs[i], f) /\ docs[i][f] # None}
   IN [_id |-> k, sum |-> SumOver(docs, f, S), n |-> Cardinality(S)]
     : k \in Values(docs, key)}

\* a sorts strictly before b under {"$sort": {<avg>: -1}}; null sorts last.
AvgGreater(a, b) == a.n # 0 /\ (b.n = 0 \/ a.sum * b.n > b.sum * a.n)

\* MongoDB leaves the order of equal averages open; one order is taken.
RECURSIVE SortAvg(_)
SortAvg(groups) ==
  IF groups = {} THEN <<>>
  ELSE LET first == CHOOSE a \in groups : \A b \in groups : ~AvgGreater(b, a)
       IN <<first>> \o SortAvg(groups \ {first})

\* Mutant: only the first submission of each enrollment is kept, as with
\* {"$arrayElemAt": ["$submissions", 0]} in place of $unwind.
RECURSIVE LookupFirst(_, _, _, _)
LookupFirst(locals, foreign, field, i) ==
  IF i > Len(locals) THEN <<>>
  ELSE LET joined == SelectSeq(foreign, LAMBDA s : SameKey(locals[i], s, <<field>>))
       IN [j \in DOMAIN joined \cap {1} |->
             [studentId |-> SortKey(locals[i], "studentId"),
              grade |-> IF Has(joined[j], "grade") THEN joined[j].grade ELSE None]]
          \o LookupFirst(locals, foreign, field, i + 1)

\* {"$lookup": from submission, localField = foreignField = "enrollmentId"}
\* followed by {"$unwind": "$submissions"}: one document per pair of an
\* enrollment and a submission with the same enrollmentId.
RECURSIVE LookupUnwind(_, _, _, _)
LookupUnwind(locals, foreign, field, i) ==
  IF i > Len(locals) THEN <<>>
  ELSE LET joined == SelectSeq(foreign, LAMBDA s : SameKey(locals[i], s, <<field>>))
       IN [j \in DOMAIN joined |->
             [studentId |-> SortKey(locals[i], "studentId"),
              grade |-> IF Has(joined[j], "grade") THEN joined[j].grade ELSE None]]
          \o LookupUnwind(locals, foreign, field, i + 1)

Pipeline(name) ==
  CASE name = "enrollments_per_course" ->
         GroupCount(db[enrollment_collection], "courseId")
    [] name = "average_rating" ->
         SortAvg(GroupAvg(db[course_collection], "category", "reviewRate"))
    [] name = "average_grade" ->
         SortAvg(GroupAvg(LookupUnwind(db[enrollment_collection],
                                       db[submission_collection], "enrollmentId", 1),
                          "studentId", "grade"))

\* Lines 1610, 1636, 1680: collection.aggregate, called directly.
aggregate(c, name) ==
  /\ UNCHANGED <<dbvars, nextOid>>
  /\ \/ /\ Fault
        /\ Propagated("aggregate", c, name)
        /\ ret' = None
     \/ /\ NoFault
        /\ Called("aggregate", c, name, FALSE)
        /\ ret' = Pipeline(name)

\* -------------------------------------------------------------- the script
Eq(f, a) == [f |-> f, op |-> "$eq", a |-> a]

\* The statements of the script that touch files or the database, in
\* order, each with the line it is on; t is what datetime.now() gives when
\* the statement is evaluated.
Script(t) ==
  << [line |-> 262, op |-> "load_json_file", coll |-> user_collection],
     [line |-> 263, op |-> "load_json_file", coll |-> course_collection],
     [line |-> 264, op |-> "load_json_file", coll |-> lesson_collection],
     [line |-> 265, op |-> "load_json_file", coll |-> assignment_collection],
     [line |-> 266, op |-> "load_json_file", coll |-> submission_collection],
     [line |-> 267, op |-> "load_json_file", coll |-> enrollment_collection],
     [line |-> 292, op |-> "create_collection_with_schema", coll |-> user_collection],
     [line |-> 295, op |-> "create_collection_with_schema", coll |-> course_collection],
     [line |-> 298, op |-> "create_collection_with_schema", coll |-> enrollment_collection],
     [line |-> 301, op |-> "create_collection_with_schema", coll |-> lesson_collection],
     [line |-> 304, op |-> "create_collection_with_schema", coll |-> assignment_collection],
     [line |-> 307, op |-> "create_collection_with_schema", coll |-> submission_collection],
     [line |-> 325, op |-> "create_index", coll |-> user_collection,
      keys |-> <<"userId">>, unique |-> TRUE],
     [line |-> 329, op |-> "create_index", coll |-> enrollment_collection,
      keys |-> <<"enrollmentId">>, unique |-> TRUE],
     [line |-> 333, op |-> "create_index", coll |-> enrollment_collection,
      keys |-> <<"courseId", "studentId">>, unique |-> TRUE],
     [line |-> 337, op |-> "create_index", coll |-> lesson_collection,
      keys |-> <<"lessonId">>, unique |-> TRUE],
     [line |-> 341, op |-> "create_index", coll |-> assignment_collection,
      keys |-> <<"assignmentId">>, unique |-> TRUE],
     [line |-> 345, op |-> "create_index", coll |-> submission_collection,
      keys |-> <<"submissionId">>, unique |-> TRUE],
     [line |-> 1113, op |-> "create_documents", coll |-> user_collection,
      documents |-> users_data],
     [line |-> 1114, op |-> "create_documents", coll |-> course_collection,
      documents |-> courses_data],
     [line |-> 1115, op |-> "create_documents", coll |-> enrollment_collection,
      documents |-> enrollments_data],
     [line |-> 1116, op |-> "create_documents", coll |-> lesson_collection,
      documents |-> lessons_data],
     [line |-> 1117, op |-> "create_documents", coll |-> assignment_collection,
      documents |-> assignments_data],
     [line |-> 1118, op |-> "create_documents", coll |-> submission_collection,
      documents |-> submissions_data],
     \* new_user, new_course, new_enrollment, new_lesson: the dict is built
     \* around get_next_id, then handed to create_document.
     [line |-> 1129, op |-> "get_next_id", coll |-> user_collection,
      document |-> [email |-> "antonio.student@example.com", role |-> "student",
                    joinedAt |-> t]],
     [line |-> 1139, op |-> "create_document", coll |-> user_collection],
     [line |-> 1151, op |-> "get_next_id", coll |-> course_collection,
      document |-> [title |-> "Advanced Python Programming", instructorId |-> 17,
                    category |-> "Programming", price |-> 19999,
                    tags |-> {"python", "advanced", "programming", "oop", "data"},
                    isPublished |-> TRUE, isActive |-> TRUE, reviewRate |-> 0]],
     [line |-> 1169, op |-> "create_document", coll |-> course_collection],
     [line |-> 1181, op |-> "get_next_id", coll |-> enrollment_collection,
      document |-> [courseId |-> 21, studentId |-> 31, isActive |-> TRUE]],
     [line |-> 1205, op |-> "create_document", coll |-> enrollment_collection],
     [line |-> 1217, op |-> "get_next_id", coll |-> lesson_collection,
      document |-> [courseId |-> 21, assignmentId |-> 12, isActive |-> TRUE]],
     [line |-> 1229, op |-> "create_document", coll |-> lesson_collection],
     [line |-> 1252, op |-> "read_document", coll |-> user_collection,
      query |-> <<Eq("role", "student"), Eq("isActive", TRUE)>>],
     [line |-> 1271, op |-> "read_document", coll |-> course_collection,
      query |-> <<Eq("instructorId", 17)>>],
     [line |-> 1290, op |-> "read_document", coll |-> course_collection,
      query |-> <<Eq("category", "Programming")>>],
     [line |-> 1306, op |-> "read_document", coll |-> enrollment_collection,
      query |-> <<Eq("courseId", 5)>>],
     [line |-> 1325, op |-> "read_document", coll |-> course_collection,
      query |-> <<[f |-> "title", op |-> "$regex", a |-> "aWs"]>>],
     [line |-> 1367, op |-> "update_document", coll |-> user_collection,
      query |-> <<Eq("userId", 1)>>,
      update |-> [set |-> [updatedAt |-> t],
                  setIn |-> [profile |->
                               [bio |-> "Learning Data Engineering",
                                avatar |-> "https://avatarlink.com/avatar.png",
                                skills |-> {"SQL", "Python"}]],
                  addToSet |-> EmptyDoc]],
     [line |-> 1389, op |-> "update_document", coll |-> course_collection,
      query |-> <<Eq("courseId", 1)>>,
      update |-> SetOnly([isPublished |-> TRUE, updatedAt |-> t])],
     [line |-> 1417, op |-> "update_document", coll |-> submission_collection,
      query |-> <<Eq("submissionId", 1)>>,
      update |-> SetOnly([grade |-> 98, updatedAt |-> t])],
     [line |-> 1442, op |-> "update_document", coll |-> course_collection,
      query |-> <<Eq("courseId", 1)>>,
      update |-> [set |-> [updatedAt |-> t], setIn |-> EmptyDoc,
                  addToSet |-> [tags |-> {"backend"}]]],
     [line |-> 1465, op |-> "delete_document", coll |-> user_collection,
      query |-> <<Eq("userId", 1)>>],
     [line |-> 1481, op |-> "delete_document", coll |-> enrollment_collection,
      query |-> <<Eq("enrollmentId", 1)>>],
     [line |-> 1497, op |-> "delete_document", coll |-> lesson_collection,
      query |-> <<Eq("lessonId", 1)>>],
     [line |-> 1520, op |-> "read_document", coll |-> course_collection,
      query |-> <<[f |-> "price", op |-> "$gte", a |-> 5000],
                  [f |-> "price", op |-> "$lte", a |-> 20000]>>],
     [line |-> 1538, op |-> "read_document", coll |-> user_collection,
      query |-> <<[f |-> "joinedAt", op |-> "$gte", a |-> t - timedelta(6 * 30)]>>],
     [line |-> 1558, op |-> "read_document", coll |-> course_collection,
      query |-> <<[f |-> "tags", op |-> "$in", a |-> {"python", "programming"}]>>],
     [line |-> 1577, op |-> "read_document", coll |-> assignment_collection,
      query |-> <<[f |-> "dueDate", op |-> "$gte", a |-> t],
                  [f |-> "dueDate", op |-> "$lte", a |-> t + timedelta(7)]>>],
     [line |-> 1610, op |-> "aggregate", coll |-> enrollment_collection,
      pipeline |-> "enrollments_per_course"],
     [line |-> 1636, op |-> "aggregate", coll |-> course_collection,
      pipeline |-> "average_rating"],
     [line |-> 1680, op |-> "aggregate", coll |-> enrollment_collection,
      pipeline |-> "average_grade"],
     [line |-> 1698, op |-> "create_index", coll |-> user_collection,
      keys |-> <<"email">>, unique |-> TRUE],
     [line |-> 1709, op |-> "create_index", coll |-> course_collection,
      keys |-> <<"title", "category">>, unique |-> FALSE],
     [line |-> 1719, op |-> "create_index", coll |-> assignment_collection,
      keys |-> <<"dueDate">>, unique |-> FALSE],
     [line |-> 1729, op |-> "create_index", coll |-> enrollment_collection,
      keys |-> <<"studentId", "courseId">>, unique |-> FALSE] >>

\* The operation of each statement.
ScriptOps == [i \in DOMAIN Script(0) |-> Script(0)[i].op]

\* pc after the last statement, and after an uncaught exception.
Done == Len(ScriptOps) + 1
Crashed == 0

\* The statement about to run.
At(op) == pc \in DOMAIN ScriptOps /\ ScriptOps[pc] = op
Stmt == Script(now)[pc]

\* The script goes on with its next statement, or is left by the exception.
Continue == pc' = IF call'.propagated THEN Crashed ELSE pc + 1

\* The file that holds the schema of a collection.
SchemaFile(c) == c \o "_collection_schema.json"

\* Every statement takes a tick of the clock; delete_document reads the
\* clock itself.
Tick == now' = now + 1

\* Lines 262-267: <c>_schema = load_json_file("<c>_collection_schema.json")
LoadSchema ==
  /\ At("load_json_file")
  /\ \E state \in FileStates : load_json_file(SchemaFile(Stmt.coll), state)
  /\ schemas' = IF call'.propagated THEN schemas
                ELSE [schemas EXCEPT ![Stmt.coll] = ret']
  /\ Continue /\ Tick
  /\ UNCHANGED <<new_doc, generated, runs>>

\* Lines 292-307; the value returned is not looked at.
CreateCollection ==
  /\ At("create_collection_with_schema")
  /\ create_collection_with_schema(Stmt.coll, schemas[Stmt.coll])
  /\ Continue /\ Tick
  /\ UNCHANGED <<schemas, new_doc, generated, runs>>

\* Lines 325-345 and 1698-1729.
CreateIndex ==
  /\ At("create_index")
  /\ create_index(Stmt.coll, Stmt.keys, Stmt.unique)
  /\ Continue /\ Tick
  /\ UNCHANGED <<schemas, new_doc, generated, runs>>

\* Lines 1113-1118.
InsertSampleData ==
  /\ At("create_documents")
  /\ create_documents(Stmt.coll, Stmt.documents, IdField(Stmt.coll))
  /\ Continue /\ Tick
  /\ UNCHANGED <<schemas, new_doc, generated, runs>>

\* Lines 1129-1136, 1151-1166, 1181-1202, 1217-1226.
BuildNewDocument ==
  /\ At("get_next_id")
  /\ get_next_id(Stmt.coll, IdField(Stmt.coll))
  /\ new_doc' = (IdField(Stmt.coll) :> ret') @@ Stmt.document
  /\ Continue /\ Tick
  /\ UNCHANGED <<schemas, generated, runs>>

\* Lines 1139, 1169, 1205, 1229.
InsertNewDocument ==
  /\ At("create_document")
  /\ create_document(Stmt.coll, new_doc)
  /\ generated' = IF db' = db THEN generated
                  ELSE generated \cup {<<Stmt.coll, nextOid>>}
  /\ Continue /\ Tick
  /\ UNCHANGED <<schemas, new_doc, runs>>

\* Lines 1252-1325 and 1520-1577.
Read ==
  /\ At("read_document")
  /\ read_document(Stmt.coll, Stmt.query)
  /\ Continue /\ Tick
  /\ UNCHANGED <<schemas, new_doc, generated, runs>>

\* Lines 1367-1442.
Update ==
  /\ At("update_document")
  /\ update_document(Stmt.coll, Stmt.query, Stmt.update)
  /\ Continue /\ Tick
  /\ UNCHANGED <<schemas, new_doc, generated, runs>>

\* Lines 1465-1497.
Delete ==
  /\ At("delete_document")
  /\ delete_document(Stmt.coll, Stmt.query)
  /\ Continue
  /\ UNCHANGED <<schemas, new_doc, generated, runs>>

\* Lines 1610-1680.
Aggregate ==
  /\ At("aggregate")
  /\ aggregate(Stmt.coll, Stmt.pipeline)
  /\ Continue /\ Tick
  /\ UNCHANGED <<schemas, new_doc, generated, runs>>

\* The script has ended, normally or by an exception, and is started
\* again later on the database it left; its variables start afresh.
StartCall == [op |-> "start", coll |-> "", arg |-> "", raised |-> FALSE,
              propagated |-> FALSE]

Rerun ==
  /\ pc \in {Done, Crashed}
  /\ runs < MaxRuns
  /\ runs' = runs + 1
  /\ pc' = 1
  /\ schemas' = [c \in Collections |-> None]
  /\ new_doc' = EmptyDoc
  /\ now' = now + timedelta(1)
  /\ call' = StartCall
  /\ ret' = None
  /\ UNCHANGED <<dbvars, generated, failures, nextOid>>

\* Lines 14-17: a client for a database that holds nothing yet.
Init ==
  /\ db = [c \in Collections |-> <<>>]
  /\ collections = {}
  /\ validators = {}
  /\ indexes = {}
  /\ schemas = [c \in Collections |-> None]
  /\ new_doc = EmptyDoc
  /\ generated = {}
  /\ pc = 1
  /\ runs = 1
  /\ failures = 0
  /\ now = Day(RunDay)
  /\ nextOid = 1
  /\ call = StartCall
  /\ ret = None

Next ==
  \/ LoadSchema
  \/ CreateCollection
  \/ CreateIndex
  \/ InsertSampleData
  \/ BuildNewDocument
  \/ InsertNewDocument
  \/ Read
  \/ Update
  \/ Delete
  \/ Aggregate
  \/ Rerun

Spec == Init /\ [][Next]_vars

\* ------------------------------------------------- the helpers on their own
\* The helper functions called in any order, as a caller of the module may
\* call them, with arguments from small sets.  The script's own variables
\* stay as the set-up left them.  Calls fail here only for what the
\* database holds (duplicate keys, validation); faults of the connection
\* are followed in Spec.
scriptvars == <<schemas, new_doc, pc, runs>>

\* One collection for each set of unique indexes: on the id, none, and
\* on the id and on (courseId, studentId).
OpsCollections == {user_collection, course_collection, enrollment_collection}

OpsIds == {1, 2}

\* A document for collection c with id `id` (0: without the id field); k is
\* the student of an enrollment.
OpsDocument(c, id, k) ==
  (IF id = 0 THEN EmptyDoc ELSE IdField(c) :> id) @@
  (CASE c = enrollment_collection -> [courseId |-> 1, studentId |-> k, isActive |-> TRUE]
     [] OTHER -> [isActive |-> TRUE])

OpsQueries(c) == << <<>>, <<Eq(IdField(c), 1)>>, <<Eq("isActive", TRUE)>> >>

\* A $set as in line 1384, without the time stamp.
OpsUpdates(c) == << SetOnly([isPublished |-> TRUE]) >>

\* The calls of one behaviour work on one collection: a call on c is made
\* only while the other collections hold nothing.
OnlyIn(c) == \A d \in Collections \ {c} : db[d] = <<>>

OpsGetNextId ==
  /\ \E c \in OpsCollections : OnlyIn(c) /\ get_next_id(c, IdField(c))
  /\ UNCHANGED <<scriptvars, generated, now>>

\* The pattern of lines 1129-1139: the id get_next_id just returned is
\* the id of the document that is created next.
OpsCreateWithNextId ==
  /\ call.op = "get_next_id"
  /\ nextOid <= MaxOpsDocs
  /\ OnlyIn(call.coll)
  /\ create_document(call.coll, OpsDocument(call.coll, ret, 2))
  /\ generated' = IF call'.raised THEN generated
                  ELSE generated \cup {<<call.coll, nextOid>>}
  /\ UNCHANGED <<scriptvars, now>>

\* The documents a caller hands to create_document: with id 1 or 2; for
\* course, which has no index on its id, also without id; for enrollment
\* with either student.
OpsDocuments(c) ==
  {OpsDocument(c, id, k) :
     id \in OpsIds \cup (IF c = course_collection THEN {0} ELSE {}),
     k \in IF c = enrollment_collection THEN OpsIds ELSE {1}}

OpsCreateDocument ==
  /\ nextOid <= MaxOpsDocs
  /\ \E c \in OpsCollections : \E document \in OpsDocuments(c) :
       OnlyIn(c) /\ create_document(c, document)
  /\ UNCHANGED <<scriptvars, generated, now>>

OpsCreateDocuments ==
  /\ nextOid + 1 <= MaxOpsDocs
  /\ \E c \in OpsCollections, id1, id2 \in OpsIds :
       /\ OnlyIn(c)
       /\ create_documents(c, <<OpsDocument(c, id1, 1), OpsDocument(c, id2, 2)>>,
                        IdField(c))
  /\ UNCHANGED <<scriptvars, generated, now>>

OpsRead ==
  /\ \E c \in OpsCollections : \E i \in DOMAIN OpsQueries(c) :
       OnlyIn(c) /\ read_document(c, OpsQueries(c)[i])
  /\ UNCHANGED <<scriptvars, generated, now>>

OpsUpdate ==
  /\ \E c \in OpsCollections : \E i \in {1, 2} :
       \E j \in DOMAIN OpsUpdates(c) :
         OnlyIn(c) /\ update_document(c, OpsQueries(c)[i], OpsUpdates(c)[j])
  /\ UNCHANGED <<scriptvars, generated, now>>

OpsDelete ==
  /\ now < Day(RunDay) + MaxOpsClock
  /\ \E c \in OpsCollections : \E i \in DOMAIN OpsQueries(c) :
       OnlyIn(c) /\ delete_document(c, OpsQueries(c)[i])
  /\ UNCHANGED <<scriptvars, generated>>

OpsCreateCollection ==
  /\ \E c \in OpsCollections, schema \in {None, 1} :
       OnlyIn(c) /\ create_collection_with_schema(c, schema)
  /\ UNCHANGED <<scriptvars, generated, now>>

\* The state lines 262-345 leave when no exception ends the script there:
\* the six unique indexes are there; a collection has its validator when
\* its schema file was loaded, and the course collection, which gets no
\* index, exists only when it was created with its validator.
SetUpIndexes ==
  {[coll |-> c, keys |-> <<IdField(c)>>, unique |-> TRUE] :
     c \in Collections \ {course_collection}}
  \cup {[coll |-> enrollment_collection, keys |-> <<"courseId", "studentId">>,
         unique |-> TRUE]}

OpsInit ==
  /\ db = [c \in Collections |-> <<>>]
  /\ validators \in {Collections, {}}
  /\ collections = validators \cup (Collections \ {course_collection})
  /\ indexes = SetUpIndexes
  /\ schemas = [c \in Collections |-> None]
  /\ new_doc = EmptyDoc
  /\ generated = {}
  /\ pc = 19
  /\ runs = 1
  /\ failures = MaxFailures
  /\ now = Day(RunDay)
  /\ nextOid = 1
  /\ call = StartCall
  /\ ret = None

OpsNext ==
  \/ OpsGetNextId
  \/ OpsCreateWithNextId
  \/ OpsCreateDocument
  \/ OpsCreateDocuments
  \/ OpsRead
  \/ OpsUpdate
  \/ OpsDelete
  \/ OpsCreateCollection

OpsSpec == OpsInit /\ [][OpsNext]_vars

\* Creation with ids from get_next_id only, with updates and soft deletes
\* in between.
IdNext ==
  \/ OpsGetNextId
  \/ OpsCreateWithNextId
  \/ OpsUpdate
  \/ OpsDelete

IdSpec == OpsInit /\ [][IdNext]_vars

\* ------------------------------------------------------------------ claims
Max(S) == CHOOSE x \in S : \A y \in S : y <= x

\* The integer ids stored in field f of a sequence of documents.
IdsIn(docs, f) == {docs[i][f] : i \in {j \in DOMAIN docs : ~IsNull(docs[j], f)}}

\* The same documents, in the same order, going by their _id.
SameDocuments(before, after) ==
  /\ Len(after) = Len(before)
  /\ \A i \in DOMAIN before : after[i]._id = before[i]._id

\* C1: delete_document is a soft delete.  Whatever the collection and the
\* query, the collection holds the same documents after the call as
\* before it, none removed, and when the call did not raise every
\* document that matched the query has isActive = False.
C1_SoftDelete ==
  [][call'.op = "delete_document" =>
       LET c == call'.coll
       IN /\ SameDocuments(db[c], db'[c])
          /\ \A d \in Collections \ {c} : db'[d] = db[d]
          /\ ~call'.raised =>
               \A i \in DOMAIN db[c] :
                 Matches(db[c][i], call'.arg) =>
                   Has(db'[c][i], "isActive") /\ db'[c][i].isActive = FALSE]_vars

\* C1 witness: a soft delete has marked two documents of a collection
\* inactive, and both are still there.
C1_Witness ==
  /\ call.op = "delete_document"
  /\ ret = 2
  /\ Len(db[call.coll]) = 2
  /\ \A i \in DOMAIN db[call.coll] : db[call.coll][i].isActive = FALSE

\* The helper functions, and what each returns from its except branch.
HelperOps ==
  {"get_next_id", "create_collection_with_schema", "read_document",
   "create_document", "create_documents", "update_document", "delete_document"}

Sentinel(op) ==
  CASE op \in {"get_next_id", "create_document"} -> None
    [] op = "create_collection_with_schema" -> FALSE
    [] op \in {"read_document", "create_documents"} -> <<>>
    [] op \in {"update_document", "delete_document"} -> 0

\* The calls the script makes on the driver directly.
DirectOps == {"create_index", "aggregate"}

\* C2 as stated: every database operation of the script is wrapped in a
\* try/except, so a failing database call never ends the script with an
\* exception.
C2_EveryDatabaseCallGuarded ==
  (call.raised /\ call.op \in HelperOps \cup DirectOps) =>
    (~call.propagated /\ pc # Crashed)

\* C2 amended: a failing database call made through a helper function is
\* caught there, the helper returns its sentinel and the script goes on
\* with its next statement; a failing create_index or aggregate call, made
\* directly, ends the script with the exception.
C2_HelperCallsGuarded ==
  [][/\ (call'.raised /\ call'.op \in HelperOps) =>
          /\ ~call'.propagated
          /\ ret' = Sentinel(call'.op)
          /\ pc' = pc + 1
     /\ (call'.raised /\ call'.op \in DirectOps) =>
          /\ call'.propagated
          /\ pc' = Crashed]_vars

\* C2 witness: the batch insert of a data set failed, [] came back and the
\* script is at its next statement.
C2_Witness ==
  /\ call.op = "create_documents"
  /\ call.raised
  /\ ret = <<>>
  /\ pc \in DOMAIN ScriptOps
  /\ pc > 1
  /\ ScriptOps[pc - 1] = "create_documents"

\* The documents as stored: each with the _id it was given.
Stored(documents, oid) ==
  [i \in DOMAIN documents |-> ("_id" :> (oid + i - 1)) @@ documents[i]]

C4_NextId ==
  (call.op = "get_next_id" /\ ~call.raised) =>
    LET ids == IdsIn(db[call.coll], call.arg)
    IN ret = IF ids = {} THEN 1 ELSE Max(ids) + 1

\* C4 witness: get_next_id returned 3 for a collection whose one document
\* with an id has id 2 (the other has none).
C4_Witness ==
  /\ call.op = "get_next_id"
  /\ ret = 3
  /\ Len(db[call.coll]) = 2
  /\ IdsIn(db[call.coll], call.arg) = {2}

\* C5: when documents are created only with ids from get_next_id, with
\* updates and soft deletes in between, no two documents of a collection
\* have the same id, and get_next_id never returns the id of a document of
\* the collection, soft-deleted or not.
C5_GeneratedIdsUnique ==
  /\ \A c \in Collections : ~HasDuplicates(db[c], <<IdField(c)>>)
  /\ (call.op = "get_next_id" /\ ~call.raised) =>
       ret \notin IdsIn(db[call.coll], call.arg)

\* C5 witness: the course collection holds two documents created with ids
\* from get_next_id, both soft-deleted, and get_next_id returns 3.
C5_Witness ==
  /\ call.op = "get_next_id"
  /\ call.coll = course_collection
  /\ ret = 3
  /\ Len(db[course_collection]) = 2
  /\ \A i \in DOMAIN db[course_collection] :
       /\ <<course_collection, db[course_collection][i]._id>> \in generated
       /\ db[course_collection][i].isActive = FALSE

\* The collections with a unique index on their id (lines 325-345).
UniqueIdCollections == Collections \ {course_collection}

\* doc has the id of a document of collection c.
DuplicatesId(c, doc) ==
  \E i \in DOMAIN db[c] : SameKey(db[c][i], doc, <<IdField(c)>>)

\* C6: no two documents of user, enrollment, lesson, assignment or
\* submission share the collection's id; create_document with a document
\* whose id is taken, and create_documents with a batch whose first
\* document's id is taken, fail and leave the database as it was.
C6_UniqueIds ==
  /\ [](\A c \in UniqueIdCollections : ~HasDuplicates(db[c], <<IdField(c)>>))
  /\ [][/\ (/\ At("create_document")
             /\ Stmt.coll \in UniqueIdCollections
             /\ DuplicatesId(Stmt.coll, new_doc)) =>
              (call'.raised /\ ret' = None /\ db' = db)
        /\ (/\ At("create_documents")
             /\ Stmt.coll \in UniqueIdCollections
             /\ DuplicatesId(Stmt.coll, Stmt.documents[1])) =>
              (call'.raised /\ ret' = <<>> /\ db' = db)]_vars

\* C6 witness: a second run handed the users to create_documents again;
\* the call failed and the 33 users of the first run are what is stored.
C6_Witness ==
  /\ runs = 2 /\ failures = 0
  /\ call.op = "create_documents"
  /\ call.coll = user_collection
  /\ call.raised
  /\ Len(db[user_collection]) = 33

\* C7: no two enrollment documents have the same (courseId, studentId).
C7_OneEnrollmentPerStudentAndCourse ==
  ~HasDuplicates(db[enrollment_collection], <<"courseId", "studentId">>)

\* C7 witness: a second run tried to enroll student 31 in course 21 again
\* under a fresh enrollmentId, and the insert was refused.
C7_Witness ==
  /\ runs = 2 /\ failures = 0
  /\ call.op = "create_document"
  /\ call.coll = enrollment_collection
  /\ call.arg.enrollmentId = 34
  /\ call.raised
  /\ Len(db[enrollment_collection]) = 33

\* C8 as stated: every stored document was validated against the schema
\* of its collection and satisfies it, whatever
\* create_collection_with_schema returned.
C8_EveryDocumentValidated ==
  \A c \in Collections :
    \A i \in DOMAIN db[c] : c \in validators /\ SatisfiesSchema(c, db[c][i])

C10_LoadReturnsNoneOnError ==
  (call.op = "load_json_file" /\ call.raised) =>
    (~call.propagated /\ ret = None)

\* C11: when the database call of get_next_id raises, get_next_id returns
\* None and the collections, their documents, validators and indexes are
\* as they were before the call.
C11_NextIdNoneOnError ==
  [][(call'.op = "get_next_id" /\ call'.raised) =>
       (ret' = None /\ UNCHANGED dbvars)]_vars

\* C11 witness: get_next_id for the user collection failed with the 32
\* seed users stored, and returned None.
C11_Witness ==
  /\ call.op = "get_next_id"
  /\ call.coll = user_collection
  /\ call.raised
  /\ ret = None
  /\ Len(db[user_collection]) = 32

\* The document as insert_one stores it in collection c.
Inserted(c, document) ==
  [db EXCEPT ![c] = Append(@, ("_id" :> nextOid) @@ document)]

\* C12 as stated: create_document returns the id of the stored document
\* as a string, and whenever the insert fails it returns None and the
\* collection is as it was.
C12_FailedInsertStoresNothing ==
  [][call'.op = "create_document" =>
       IF call'.raised
       THEN ret' = None /\ db' = db
       ELSE ret' = Str(nextOid) /\ db' = Inserted(call'.coll, call'.arg)]_vars

\* C12 amended: create_document returns the id of the stored document as
\* a string and the document is then the last of the collection; when the
\* server rejects the insert (duplicate key, validation) it returns None
\* and the collection is as it was; when the connection fails it returns
\* None and the document either is not stored or, the acknowledgement
\* being lost, is stored all the same.
C12_CreateDocument ==
  [][call'.op = "create_document" =>
       LET c == call'.coll
           document == call'.arg
       IN /\ ~call'.propagated
          /\ IF call'.raised
             THEN /\ ret' = None
                  /\ db' = db \/ db' = Inserted(c, document)
                  /\ ~Accepts(db[c], c, document) => db' = db
             ELSE /\ ret' = Str(nextOid)
                  /\ db' = Inserted(c, document)]_vars

\* C12 witness: the insert of the new user failed on the connection and
\* None was returned, and the user is stored with the 32 seed users.
C12_Witness ==
  /\ runs = 1
  /\ call.op = "create_document"
  /\ call.coll = user_collection
  /\ call.raised
  /\ ret = None
  /\ Len(db[user_collection]) = 33

\* C13: when the batch insert succeeds create_documents returns one id
\* per input document, in input order: the i-th id returned is, as a
\* string, the _id under which the i-th document was stored; when the
\* insertion fails it returns the empty list.
C13_CreateDocuments ==
  [][At("create_documents") =>
       LET c == Stmt.coll
           documents == Stmt.documents
       IN /\ ~call'.propagated
          /\ IF call'.raised
             THEN ret' = <<>>
             ELSE /\ Len(ret') = Len(documents)
                  /\ Len(db'[c]) = Len(db[c]) + Len(documents)
                  /\ \A i \in DOMAIN documents :
                       LET stored == db'[c][Len(db[c]) + i]
                       IN /\ stored = ("_id" :> stored._id) @@ documents[i]
                          /\ ret'[i] = Str(stored._id)]_vars

\* C13 witness: the batch of the 40 lessons was stored and 40 ids came
\* back, the first that of lesson 1 and the last that of lesson 40.
C13_Witness ==
  /\ call.op = "create_documents"
  /\ call.coll = lesson_collection
  /\ ~call.raised
  /\ Len(ret) = 40
  /\ Len(db[lesson_collection]) = 40
  /\ ret[1] = Str(db[lesson_collection][1]._id)
  /\ db[lesson_collection][1].lessonId = 1
  /\ ret[40] = Str(db[lesson_collection][40]._id)
  /\ db[lesson_collection][40].lessonId = 40

\* The positions of the documents of docs that match a filter.
Matching(docs, query) == {j \in DOMAIN docs : Matches(docs[j], query)}

\* C14: read_document changes no collection; when the call raises it
\* returns the empty list, and otherwise the list it returns holds every
\* document of the collection that matches the filter, each once, and
\* nothing else (so the empty list when nothing matches).
C14_ReadDocument ==
  [][call'.op = "read_document" =>
       LET docs == db[call'.coll]
           query == call'.arg
       IN /\ UNCHANGED dbvars
          /\ ~call'.propagated
          /\ IF call'.raised
             THEN ret' = <<>>
             ELSE /\ Len(ret') = Cardinality(Matching(docs, query))
                  /\ \A j \in Matching(docs, query) :
                       \E i \in DOMAIN ret' : ret'[i] = docs[j]
                  /\ \A i \in DOMAIN ret' :
                       \E j \in Matching(docs, query) : docs[j] = ret'[i]]_vars

\* C14 witness: the query for the courses priced from 50 to 200 returned
\* 15 of the 17 courses of the first run.
C14_Witness ==
  /\ runs = 1
  /\ call.op = "read_document"
  /\ call.coll = course_collection
  /\ ~call.raised
  /\ Len(call.arg) = 2
  /\ Len(ret) = 15
  /\ Len(db[course_collection]) = 17

\* C15: update_document leaves the documents that do not match the filter,
\* and the other collections, as they are; when the call does not raise,
\* every document that matches the filter, not only the first, has the
\* update applied, and the number returned is the number of documents the
\* call changed (0 when none was); when the call raises it returns 0.
C15_UpdateDocument ==
  [][At("update_document") =>
       LET c == Stmt.coll
           query == Stmt.query
       IN /\ ~call'.propagated
          /\ Len(db'[c]) = Len(db[c])
          /\ \A d \in Collections \ {c} : db'[d] = db[d]
          /\ \A i \in DOMAIN db[c] :
               ~Matches(db[c][i], query) => db'[c][i] = db[c][i]
          /\ IF call'.raised
             THEN ret' = 0
             ELSE /\ \A i \in Matching(db[c], query) :
                       db'[c][i] = ApplyUpdate(db[c][i], Stmt.update)
                  /\ ret' = Cardinality({i \in DOMAIN db[c] :
                                           db'[c][i] # db[c][i]})]_vars

\* C15 witness: in the second run the filter courseId = 1 matches two
\* course documents; both are published and 2 is returned.
C15_Witness ==
  /\ runs = 2
  /\ call.op = "update_document"
  /\ call.coll = course_collection
  /\ ~call.raised
  /\ ret = 2
  /\ Cardinality({i \in Matching(db[course_collection], <<Eq("courseId", 1)>>) :
                    db[course_collection][i].isPublished = TRUE}) = 2

\* The sum of totalEnrollments over a set of results.
RECURSIVE SumTotals(_)
SumTotals(results) ==
  IF results = {} THEN 0
  ELSE LET r == CHOOSE x \in results : TRUE
       IN r.totalEnrollments + SumTotals(results \ {r})

\* The enrollment documents of a course.
EnrollmentsOf(courseId) ==
  {i \in DOMAIN db[enrollment_collection] :
     SortKey(db[enrollment_collection][i], "courseId") = courseId}

\* C16: the enrollments-per-course aggregation returns exactly one result
\* for each courseId that occurs in the enrollment collection, with
\* totalEnrollments the number of enrollment documents of that course;
\* the totals add up to the number of enrollment documents, and a
\* course without enrollments has no result.
C16_EnrollmentsPerCourse ==
  (call.op = "aggregate" /\ call.arg = "enrollments_per_course" /\ ~call.raised) =>
    LET enrollments == db[enrollment_collection]
        courses == db[course_collection]
    IN /\ {r._id : r \in ret} = {SortKey(enrollments[i], "courseId") :
                                     i \in DOMAIN enrollments}
       /\ Cardinality(ret) = Cardinality({r._id : r \in ret})
       /\ \A r \in ret :
            r.totalEnrollments = Cardinality(EnrollmentsOf(r._id))
       /\ SumTotals(ret) = Len(enrollments)
       /\ \A i \in DOMAIN courses :
            EnrollmentsOf(SortKey(courses[i], "courseId")) = {} =>
              \A r \in ret : r._id # SortKey(courses[i], "courseId")

\* C16 witness: with the 33 enrollments of the first run the aggregation
\* gives 17 results, 2 enrollments for course 1 and 1 for course 21, and
\* none for course 17, which has no enrollment.
C16_Witness ==
  /\ call.op = "aggregate"
  /\ call.arg = "enrollments_per_course"
  /\ ~call.raised
  /\ Len(db[enrollment_collection]) = 33
  /\ Cardinality(ret) = 17
  /\ [_id |-> 1, totalEnrollments |-> 2] \in ret
  /\ [_id |-> 21, totalEnrollments |-> 1] \in ret
  /\ \E i \in DOMAIN db[course_collection] : db[course_collection][i].courseId = 17
  /\ \A r \in ret : r._id # 17

\* The pairs <<i, j>> of an enrollment of the student and a submission
\* with that enrollment's enrollmentId.
SubmissionsOf(studentId) ==
  {p \in (DOMAIN db[enrollment_collection]) \X (DOMAIN db[submission_collection]) :
     /\ SortKey(db[enrollment_collection][p[1]], "studentId") = studentId
     /\ SameKey(db[enrollment_collection][p[1]], db[submission_collection][p[2]],
                <<"enrollmentId">>)}

\* The sum of the grades of the submissions of a set of such pairs.
RECURSIVE SumGrades(_)
SumGrades(pairs) ==
  IF pairs = {} THEN 0
  ELSE LET p == CHOOSE x \in pairs : TRUE
       IN db[submission_collection][p[2]].grade + SumGrades(pairs \ {p})

\* C17: the average-grade aggregation returns one result for each student
\* who has a submission through one of the student's enrollments, and
\* none for other students; the result's average (kept as sum / n) is
\* that of the grades, as stored when the aggregation runs, of all these
\* submissions; the results are in descending order of the average.
C17_AverageGradePerStudent ==
  (call.op = "aggregate" /\ call.arg = "average_grade" /\ ~call.raised) =>
    LET enrollments == db[enrollment_collection]
        students == {SortKey(enrollments[i], "studentId") : i \in DOMAIN enrollments}
    IN /\ {ret[k]._id : k \in DOMAIN ret} =
            {st \in students : SubmissionsOf(st) # {}}
       /\ \A k, l \in DOMAIN ret : ret[k]._id = ret[l]._id => k = l
       /\ \A k \in DOMAIN ret :
            /\ ret[k].n = Cardinality(SubmissionsOf(ret[k]._id))
            /\ ret[k].sum = SumGrades(SubmissionsOf(ret[k]._id))
       /\ \A k, l \in DOMAIN ret :
            k < l => ret[k].sum * ret[l].n >= ret[l].sum * ret[k].n

\* C17 witness: after the grade of submission 1 was set to 98, student 1
\* comes first with 5 submissions and 477 points; student 7, enrolled
\* without submissions, has no result.
C17_Witness ==
  /\ call.op = "aggregate"
  /\ call.arg = "average_grade"
  /\ ~call.raised
  /\ Len(db[submission_collection]) = 20
  /\ db[submission_collection][1].grade = 98
  /\ Len(ret) = 6
  /\ ret[1] = [_id |-> 1, sum |-> 477, n |-> 5]
  /\ \E i \in DOMAIN db[enrollment_collection] :
       db[enrollment_collection][i].studentId = 7
  /\ \A k \in DOMAIN ret : ret[k]._id # 7

\* The unique indexes of lines 325-345 on collection c.
SetUpIndexesOf(c) == {ix \in SetUpIndexes : ix.coll = c}

\* C18: every step that stores a document in a collection is taken with
\* the unique indexes of lines 325-345 on that collection in place, an
\* index once created stays, and so a collection that holds a document
\* has these indexes.
C18_IndexesBeforeInserts ==
  /\ [][/\ \A c \in Collections :
             Len(db'[c]) > Len(db[c]) => SetUpIndexesOf(c) \subseteq indexes
        /\ indexes \subseteq indexes']_vars
  /\ [](\A c \in Collections : db[c] # <<>> => SetUpIndexesOf(c) \subseteq indexes)

\* C18 witness: a run ended by an exception before any insert; the next
\* run created the indexes and then stored the 32 enrollments.
C18_Witness ==
  /\ runs = 2
  /\ failures = 1
  /\ pc = 22
  /\ call.op = "create_documents"
  /\ call.coll = enrollment_collection
  /\ ~call.raised
  /\ Len(db[enrollment_collection]) = 32
  /\ SetUpIndexesOf(enrollment_collection) \subseteq indexes
  /\ Cardinality(SetUpIndexesOf(enrollment_collection)) = 2

\* Two documents differ at most in the fields of `fields`.
SameBut(before, after, fields) ==
  /\ DOMAIN after \ fields = DOMAIN before \ fields
  /\ \A f \in DOMAIN before \ fields : after[f] = before[f]

\* C19: a delete_document call keeps the documents, touches no field but
\* isActive and updatedAt, and leaves inactive what was inactive.  Called
\* again with the query of an earlier call (the same statement in a later
\* run, the earlier run having met no fault), it finds the document
\* inactive and changes no field other than updatedAt: the documents and
\* their isActive values are those the first call left.
C19_SoftDeleteIdempotent ==
  /\ [][call'.op = "delete_document" =>
          \A c \in Collections :
            /\ Len(db'[c]) = Len(db[c])
            /\ \A i \in DOMAIN db[c] :
                 /\ SameBut(db[c][i], db'[c][i], {"isActive", "updatedAt"})
                 /\ (Has(db[c][i], "isActive") /\ db[c][i].isActive = FALSE) =>
                      db'[c][i].isActive = FALSE]_vars
  /\ [][(At("delete_document") /\ runs >= 2 /\ failures' = 0) =>
          /\ ~call'.raised
          /\ ret' = 1
          /\ \A i \in Matching(db[Stmt.coll], Stmt.query) :
               db[Stmt.coll][i].isActive = FALSE
          /\ \A c \in Collections :
               /\ Len(db'[c]) = Len(db[c])
               /\ \A i \in DOMAIN db[c] :
                    SameBut(db[c][i], db'[c][i], {"updatedAt"})]_vars

\* C19 witness: lesson 1 was soft-deleted by the first run; the second
\* run has called delete_document with the same query, which modified the
\* one document: it is inactive, with the time of the second call.
C19_Witness ==
  /\ runs = 2
  /\ failures = 0
  /\ call.op = "delete_document"
  /\ call.coll = lesson_collection
  /\ ret = 1
  /\ db[lesson_collection][1].lessonId = 1
  /\ db[lesson_collection][1].isActive = FALSE
  /\ db[lesson_collection][1].updatedAt = now - 1
  /\ now > Day(RunDay) + timedelta(1)

====
